---- MODULE Spec2Model ----
(***************************************************************************)
(* A model of climate.c: the fgets/strtok line reader, the numeric         *)
(* conversions, and the per-state accumulator table kept by analyze_file.  *)
(*                                                                         *)
(* Representation.                                                         *)
(*   - A C string is a tuple of one-character strings; NUL is the          *)
(*     terminator byte.                                                    *)
(*   - A double holding a decimal with at most two fractional digits is    *)
(*     the integer number of hundredths; a Fahrenheit temperature is the   *)
(*     integer number of thousandths (K*1.8 - 459.67 is exact in           *)
(*     thousandths).  Rounding of IEEE arithmetic is not modelled.         *)
(*   - int is 32 bits wide, long is 64 bits wide; values are computed in   *)
(*     16-bit limbs so that decimal strings above 2^31 - 1 can be read.    *)
(***************************************************************************)
EXTENDS Integers, Sequences, FiniteSets, TLC

NUM_STATES == 50
LINE_SIZE == 100

\* ------------------------------------------------------------------------
\* Bounds of the model (not program constants).
MaxLines == 3        \* input lines per run that starts without the filler prefix
MaxTail == 2         \* input lines per run after the filler prefix
MaxFiles == 1        \* file arguments on the command line
MaxSources == 3      \* file arguments on the command line, under SpecSrc
MaxSrcLines == 2     \* input lines per run, under SpecSrc
NumFill == 49        \* length of the prefix of lines with distinct new codes

\* ------------------------------------------------------------------------
\* Characters.
TAB == "\t"
NL == "\n"
NUL == "NUL"
SP == " "
DigitChars == <<"0", "1", "2", "3", "4", "5", "6", "7", "8", "9">>
IsDigit(c) == \E i \in 1..10 : DigitChars[i] = c
DigitVal(c) == (CHOOSE i \in 1..10 : DigitChars[i] = c) - 1

Repeat(c, n) == [i \in 1..n |-> c]

\* ------------------------------------------------------------------------
\* fgets(line, LINE_SIZE, file): reads at most LINE_SIZE - 1 characters,
\* stopping after a newline.  stream is the unread part of the file;
\* Fgets_n is the number of characters taken.
SetMin(S) == CHOOSE x \in S : \A y \in S : x <= y

\* Position of the first newline of stream, 0 when it has none.
NlPos(stream) ==
    LET nls == {i \in DOMAIN stream : stream[i] = NL}
    IN  IF nls = {} THEN 0 ELSE SetMin(nls)

Min(a, b) == IF a < b THEN a ELSE b

Fgets_n(stream) ==
    LET nl == NlPos(stream)
        upto == IF nl = 0 THEN Len(stream) ELSE nl
    IN  Min(upto, LINE_SIZE - 1)

\* The buffers that successive calls of fgets fill while reading stream.
RECURSIVE FgetsAll(_)
FgetsAll(stream) ==
    IF stream = <<>> THEN <<>>
    ELSE LET k == Fgets_n(stream)
         IN  <<SubSeq(stream, 1, k)>> \o FgetsAll(SubSeq(stream, k + 1, Len(stream)))

\* ------------------------------------------------------------------------
\* strtok(line, "\t") / strtok(NULL, "\t"): a token is a maximal run of
\* characters other than the delimiter; leading and repeated delimiters are
\* skipped.  Strtok(buf) is the sequence of all tokens of buf, in order.
\* The k-th smallest element of a finite set of integers.
Nth(S, k) == CHOOSE x \in S : Cardinality({y \in S : y < x}) = k - 1

Strtok(buf) ==
    LET starts == {i \in DOMAIN buf :
                     buf[i] # TAB /\ (i = 1 \/ buf[i - 1] = TAB)}
        ends == {i \in DOMAIN buf :
                     buf[i] # TAB /\ (i = Len(buf) \/ buf[i + 1] = TAB)}
    IN  [k \in 1..Cardinality(starts) |->
            SubSeq(buf, Nth(starts, k), Nth(ends, k))]

\* The tokens[] array filled by the loop
\*   while (token != NULL && tokenIndex < 9) tokens[tokenIndex++] = token;
Tokens(buf) ==
    LET all == Strtok(buf)
    IN  IF Len(all) > 9 THEN SubSeq(all, 1, 9) ELSE all

\* ------------------------------------------------------------------------
\* Numeric conversions.

\* Leading white space skipped by atoi / atof.
RECURSIVE SkipSpace(_)
SkipSpace(s) ==
    IF s # <<>> /\ s[1] = SP THEN SkipSpace(Tail(s)) ELSE s

\* The longest prefix of s made of decimal digits.
RECURSIVE DigitPrefix(_)
DigitPrefix(s) ==
    IF s # <<>> /\ IsDigit(s[1]) THEN <<s[1]>> \o DigitPrefix(Tail(s)) ELSE <<>>

\* Sign and unsigned part of a numeric string.
Negative(s) == s # <<>> /\ s[1] = "-"
Unsigned(s) == IF s # <<>> /\ (s[1] = "-" \/ s[1] = "+") THEN Tail(s) ELSE s

\* Value of a short digit string (used where the value is known to be small).
RECURSIVE DecVal(_, _)
DecVal(ds, acc) ==
    IF ds = <<>> THEN acc ELSE DecVal(Tail(ds), acc * 10 + DigitVal(ds[1]))

\* A 64-bit long as four 16-bit limbs, least significant first.
Limb == 2^16
MulAdd10(l, d) ==
    LET a0 == l[1] * 10 + d
        a1 == l[2] * 10 + (a0 \div Limb)
        a2 == l[3] * 10 + (a1 \div Limb)
        a3 == l[4] * 10 + (a2 \div Limb)
    IN  <<a0 % Limb, a1 % Limb, a2 % Limb, a3 % Limb>>

RECURSIVE Limbs(_, _)
Limbs(ds, l) ==
    IF ds = <<>> THEN l ELSE Limbs(Tail(ds), MulAdd10(l, DigitVal(ds[1])))

\* The low 32 bits <<lo, hi>> read as a two's complement int.
Signed32(lo, hi) ==
    IF hi >= 32768 THEN (hi - Limb) * Limb + lo ELSE hi * Limb + lo

\* Low 32 bits of the negation.
Neg32(lo, hi) ==
    <<(Limb - lo) % Limb, (Limb - 1 - hi + (IF lo = 0 THEN 1 ELSE 0)) % Limb>>

INT_MAX == 2147483647

\* strtol on an LP64 build: the exact magnitude (inputs stay below 2^63).
\* FitsInt: the value is representable as int.
FitsInt(neg, l) ==
    /\ l[3] = 0
    /\ l[4] = 0
    /\ \/ l[2] < 32768
       \/ neg /\ l[2] = 32768 /\ l[1] = 0

\* atoi(s).  When the value is representable the result is the value.  When
\* it is not, the behaviour is undefined (C11 7.22.1): the result is the
\* conversion of the long to int (the low 32 bits, where long is 64 bits) or
\* the clamped long (where long is 32 bits).
Atoi(s) ==
    LET t == SkipSpace(s)
        neg == Negative(t)
        l == Limbs(DigitPrefix(Unsigned(t)), <<0, 0, 0, 0>>)
        w == IF neg THEN Neg32(l[1], l[2]) ELSE <<l[1], l[2]>>
        wrap == Signed32(w[1], w[2])
        clamp == IF neg THEN -INT_MAX - 1 ELSE INT_MAX
    IN  IF FitsInt(neg, l) THEN {wrap} ELSE {wrap, clamp}

\* atof(s) in hundredths: optional sign, digits, optional '.', digits; an
\* unparsable string converts to 0.  Only the first two fractional digits are
\* kept (the inputs of the model have at most two).
Atof(s) ==
    LET t == SkipSpace(s)
        u == Unsigned(t)
        ip == DigitPrefix(u)
        r == SubSeq(u, Len(ip) + 1, Len(u))
        fp == IF r # <<>> /\ r[1] = "." THEN DigitPrefix(Tail(r)) ELSE <<>>
        f1 == IF Len(fp) >= 1 THEN DigitVal(fp[1]) ELSE 0
        f2 == IF Len(fp) >= 2 THEN DigitVal(fp[2]) ELSE 0
        mag == DecVal(ip, 0) * 100 + f1 * 10 + f2
    IN  IF Negative(t) THEN -mag ELSE mag

\* kelvin_to_fahrenheit: kelvin in hundredths, result in thousandths.
kelvin_to_fahrenheit(kelvin) == kelvin * 18 - 459670

\* C integer division truncates toward zero.
TruncDiv(a, b) == IF a >= 0 THEN a \div b ELSE -((-a) \div b)

\* ------------------------------------------------------------------------
\* Input lines.  A line is built from its tab-separated fields and ends with
\* a newline.
RECURSIVE Join(_)
Join(fields) ==
    IF Len(fields) = 1 THEN fields[1]
    ELSE fields[1] \o <<TAB>> \o Join(Tail(fields))

MkLine(fields) == Join(fields) \o <<NL>>

CA == <<"C", "A">>
WA == <<"W", "A">>
TN == <<"T", "N">>
K77 == <<"2", "9", "8", ".", "1", "5">>            \* 77.0 F
K32 == <<"2", "7", "3", ".", "1", "5">>            \* 32.0 F
K44 == <<"2", "8", "0">>                           \* 44.33 F
EpochMs == <<"1", "4", "2", "8", "3", "0", "0", "0", "0", "0", "0", "0", "0">>

\* 1, 2: the two records of the end-to-end example.
\* 3: a record with an epoch-millisecond timestamp and two extra fields.
\* 4: a line of 8 fields.
\* 5: a line of 10 fields whose third field is empty.
\* 6: a line of more than LINE_SIZE - 1 characters: a CA record that fills
\*    99 characters with its closing tab, followed by nine more fields.  Its
\*    temperature is that of line 1 and its humidity is unparsable.
Lines ==
    << MkLine(<<CA, <<"5", "0", "0", "0">>, <<"g">>, <<"5", "0">>, <<"0">>,
                <<"1", "0">>, <<"1">>, <<"9">>, K77>>),
       MkLine(<<CA, <<"7", "9", "9", "9">>, <<"g">>, <<"6", "0", ".", "0">>, <<"1">>,
                <<"2", "0">>, <<"0">>, <<"9">>, K32>>),
       MkLine(<<WA, EpochMs, <<"g">>, <<"4", "0">>, <<"1">>,
                <<"3", "0">>, <<"1">>, <<"9">>, K44, <<"e">>, <<"f">>>>),
       MkLine(<<TN, <<"5", "0", "0", "0">>, <<"g">>, <<"5", "0">>, <<"0">>,
                <<"1", "0">>, <<"1">>, <<"9">>>>),
       MkLine(<<CA, <<"6", "0", "0", "0">>, <<>>, <<"7", "0">>, <<"1">>,
                <<"4", "0">>, <<"1">>, <<"9">>, K44, <<"8">>>>),
       MkLine(<<CA, <<"3", "0", "0", "0">>, Repeat("h", 72), <<"x">>, <<"0">>,
                <<"1", "0">>, <<"0">>, <<"9">>, K77,
                WA, <<"4", "0", "0", "0">>, <<"g">>, <<"5", "0">>, <<"1">>,
                <<"1", "0">>, <<"1">>, <<"9">>, K77>>) >>

NLines == Len(Lines)

\* Lines whose first field is a one-character code no other line carries;
\* a run may start with the first NumFill of them, in order.
FillChars ==
    << "a", "b", "c", "d", "e", "f", "g", "h", "i", "j", "k", "l", "m",
       "n", "o", "p", "q", "r", "s", "t", "u", "v", "w", "x", "y", "z",
       "B", "D", "E", "F", "G", "H", "I", "J", "K", "L", "M", "O", "P",
       "Q", "R", "S", "U", "V", "X", "Y", "Z", "@", "%", "&", "*", "+" >>

FillLine(k) ==
    MkLine(<<(<<FillChars[k]>>), <<"1", "0", "0", "0">>, <<"g">>, <<"5", "0">>,
             <<"0">>, <<"1", "0">>, <<"0">>, <<"9">>, K44>>)

\* Input line number n: 1..NLines are Lines, NLines + k is filler k.
InputLines == Lines \o [k \in 1..Len(FillChars) |-> FillLine(k)]
IsFill(n) == n > NLines

\* For each input line, the buffers fgets fills while reading it and the
\* tokens[] array the loop builds from each buffer.
Chunks == [n \in DOMAIN InputLines |-> FgetsAll(InputLines[n])]
ChunkTokens ==
    [n \in DOMAIN InputLines |-> [c \in DOMAIN Chunks[n] |-> Tokens(Chunks[n][c])]]

\* ------------------------------------------------------------------------
\* struct climate_info and the states[] table.

\* The null pointer (a record, so that it compares with a climate_info).
NULL == [null |-> TRUE]

\* A stand-in for DBL_MAX: larger in magnitude than every temperature the
\* model's inputs produce (in thousandths of a degree).
DBL_MAX == 2000000000

\* A byte of malloc'ed memory that was never written: NUL, or GARBAGE, which
\* stands for any other value.
GARBAGE == "?"
UninitByte == {NUL, GARBAGE}

\* strncpy(state->code, tokens[0], 2): copies two characters, padding with
\* NUL when tokens[0] is shorter; code[2] is not written and keeps g.  No
\* byte after the first NUL of code[] is ever read (strcmp and printf stop
\* there), so such a byte is recorded as NUL whatever it holds.
Strncpy2(src, g) ==
    << IF Len(src) >= 1 THEN src[1] ELSE NUL,
       IF Len(src) >= 2 THEN src[2] ELSE NUL,
       IF Len(src) >= 2 THEN g ELSE NUL >>

\* The characters of code[] before its first NUL.
RECURSIVE CStr(_)
CStr(bytes) ==
    IF bytes = <<>> \/ bytes[1] = NUL THEN <<>>
    ELSE <<bytes[1]>> \o CStr(Tail(bytes))

\* code[] holds a terminated string: one of its three bytes is NUL.
Terminated(code) == \E i \in 1..3 : code[i] = NUL

\* The values strcmp(a, b) == 0 can take for two code[] arrays.  Two
\* terminated strings compare by their characters.  A terminated string
\* differs from an unterminated one (a NUL against another value).  Two
\* unterminated strings with the same two characters are compared on
\* uninitialized bytes, in and after code[2]: either result can come out.
StrEq(a, b) ==
    IF Terminated(a) /\ Terminated(b) THEN {CStr(a) = CStr(b)}
    ELSE IF Terminated(a) \/ Terminated(b) THEN {FALSE}
    ELSE IF <<a[1], a[2]>> # <<b[1], b[2]>> THEN {FALSE}
    ELSE {TRUE, FALSE}

create_state(tokens, g) ==
    [ code |-> Strncpy2(tokens[1], g),
      num_records |-> 0,
      humidity_sum |-> 0,
      temperature_sum |-> 0,
      max_temp |-> -DBL_MAX,
      min_temp |-> DBL_MAX,
      max_temp_timestamp |-> 0,
      min_temp_timestamp |-> 0,
      lightning_strikes |-> 0,
      snow_cover_records |-> 0,
      cloud_cover_sum |-> 0 ]

\* A variant that also replaces the maximum on a tie.
IsNewMax_OnTie(temp_fahrenheit, max_temp) == temp_fahrenheit >= max_temp

\* The comparisons of update_state_info.
IsNewMax(temp_fahrenheit, max_temp) == temp_fahrenheit > max_temp
IsNewMin(temp_fahrenheit, min_temp) == temp_fahrenheit < min_temp

\* (time_t)(atoi(tokens[1]) / 1000), ms being the value atoi returned.
ToSeconds(ms) == TruncDiv(ms, 1000)

\* update_state_info(states, state, index, tokens); ms, li and sn are the
\* values returned by atoi for tokens[1], tokens[6] and tokens[4].  The
\* unsigned long totals are plain sums: the flags of the model's inputs are
\* not negative and the totals stay far below 2^64.
update_state_info(tab, index, tokens, ms, li, sn) ==
    LET s == tab[index]
        temp_fahrenheit == kelvin_to_fahrenheit(Atof(tokens[9]))
        up == IsNewMax(temp_fahrenheit, s.max_temp)
        dn == IsNewMin(temp_fahrenheit, s.min_temp)
    IN  [tab EXCEPT ![index] =
          [ code |-> s.code,
            num_records |-> s.num_records + 1,
            humidity_sum |-> s.humidity_sum + Atof(tokens[4]),
            temperature_sum |-> s.temperature_sum + temp_fahrenheit,
            cloud_cover_sum |-> s.cloud_cover_sum + Atof(tokens[6]),
            max_temp |-> IF up THEN temp_fahrenheit ELSE s.max_temp,
            max_temp_timestamp |-> IF up THEN ToSeconds(ms) ELSE s.max_temp_timestamp,
            min_temp |-> IF dn THEN temp_fahrenheit ELSE s.min_temp,
            min_temp_timestamp |-> IF dn THEN ToSeconds(ms) ELSE s.min_temp_timestamp,
            lightning_strikes |-> s.lightning_strikes + li,
            snow_cover_records |-> s.snow_cover_records + sn ]]

\* The for loop of analyze_file: the first index whose slot is NULL or whose
\* code compares equal; 0 when the loop ends without a break.
\* Scan is the set of values the loop can end with: it stops at i when
\* states[i] is NULL or strcmp returns 0 there, having passed every j < i.
\* Stops_AnyCode is a variant that stops at a slot without comparing codes.
Stops_AnyCode(tab, code, i) == TRUE
Stops(tab, code, i) == tab[i] = NULL \/ TRUE \in StrEq(tab[i].code, code)
Passes(tab, code, j) == tab[j] # NULL /\ FALSE \in StrEq(tab[j].code, code)
Scan(tab, code) ==
    LET held == {j \in 1..NUM_STATES : ~Passes(tab, code, j)}
        upto == IF held = {} THEN NUM_STATES ELSE SetMin(held)
    IN  {i \in 1..upto : Stops(tab, code, i)}
        \cup (IF held = {} THEN {0} ELSE {})

\* A variant that lets a line of 8 tokens through.
TooFewTokens_Below8(tokenIndex) == tokenIndex < 8

\* if (tokenIndex < 9) continue;
TooFewTokens(tokenIndex) == tokenIndex < 9

\* ------------------------------------------------------------------------
\* print_report.

\* printf("%.1Lf", a / b) for b > 0: the quotient rounded to one decimal,
\* scale being the number of units of a in one tenth.
RoundDiv(a, b) == (a \div b) + (IF 2 * (a % b) >= b THEN 1 ELSE 0)

\* A long double quotient sum / num_records, printed with one decimal.
Average(sum, n, scale) ==
    IF n = 0
    THEN IF sum = 0 THEN "nan" ELSE IF sum > 0 THEN "inf" ELSE "-inf"
    ELSE RoundDiv(sum, n * scale)

\* The indices of the non-NULL slots, in index order.
NonNull(tab) ==
    LET S == {i \in 1..NUM_STATES : tab[i] # NULL}
    IN  [k \in 1..Cardinality(S) |-> Nth(S, k)]

\* The block of lines printed for one state.
Block(info) ==
    [ state |-> CStr(info.code),
      num_records |-> info.num_records,
      avg_humidity |-> Average(info.humidity_sum, info.num_records, 10),
      avg_temperature |-> Average(info.temperature_sum, info.num_records, 100),
      max_temp |-> RoundDiv(info.max_temp, 100),
      max_temp_on |-> info.max_temp_timestamp,
      min_temp |-> RoundDiv(info.min_temp, 100),
      min_temp_on |-> info.min_temp_timestamp,
      lightning_strikes |-> info.lightning_strikes,
      snow_cover_records |-> info.snow_cover_records,
      avg_cloud_cover |-> Average(info.cloud_cover_sum, info.num_records, 10) ]

\* The word printed after "States found:" when the table is empty.
None == <<"N", "o", "n", "e">>

\* A variant that needs two states to list any.
HasStates_MoreThanOne(found_states) == found_states > 1

\* if (found_states > 0)
HasStates(found_states) == found_states > 0

print_report(tab) ==
    LET idx == NonNull(tab)
        found_states == Len(idx)
    IN  [ states_found |-> IF HasStates(found_states)
                           THEN [k \in 1..found_states |-> CStr(tab[idx[k]].code)]
                           ELSE <<None>>,
          blocks |-> [k \in 1..found_states |-> Block(tab[idx[k]])] ]

\* ------------------------------------------------------------------------
\* The state of a run.
VARIABLES
    pc,        \* "main": in main's loop over argv; "analyze": in analyze_file's
               \* loop; "exit_success" / "exit_failure": the process has ended
    argc,      \* number of command-line words (program name included)
    argi,      \* main's loop index i
    states,    \* the states[] array, indices 1..NUM_STATES
    cur,       \* input line being read when fgets stopped inside it, else 0
    pos,       \* number of buffers already read from line cur
    mallocs,   \* number of climate_info objects allocated
    report,    \* what print_report printed, <<>> before it ran
    hist,      \* history: the input lines read so far, in order
    last       \* history: what the latest iteration of analyze_file's loop did:
               \* kind "skip" (too few tokens), "nomem" (malloc failed),
               \* "drop" (the scan ended without a break), "create" or
               \* "update" at slot idx, on buffer number chunk of input
               \* line n; ms is the value atoi returned for tokens[1]

VARIABLE
    opens      \* history, kept under SpecSrc only: for each file argument
               \* main has tried so far, whether fopen succeeded (ok) and
               \* the number of input lines read before the attempt (at)

vars == <<pc, argc, argi, states, cur, pos, mallocs, report, hist, last, opens>>

NoLast == [kind |-> "none", n |-> 0, chunk |-> 0, idx |-> 0, ms |-> 0]

Init ==
    /\ pc = "main"
    /\ argc \in 1..(MaxFiles + 1)
    /\ argi = 1
    /\ states = [i \in 1..NUM_STATES |-> NULL]
    /\ cur = 0
    /\ pos = 0
    /\ mallocs = 0
    /\ report = <<>>
    /\ hist = <<>>
    /\ last = NoLast
    /\ opens = <<>>

\* if (argc < 2) { printf("Usage..."); return EXIT_FAILURE; }
Usage ==
    /\ pc = "main"
    /\ argc < 2
    /\ pc' = "exit_failure"
    /\ UNCHANGED <<argc, argi, states, cur, pos, mallocs, report, hist, last>>

\* A variant in which a failed fopen also clears the table.
FopenFails_Resets ==
    /\ pc = "main"
    /\ argc >= 2
    /\ argi < argc
    /\ argi' = argi + 1
    /\ states' = [i \in 1..NUM_STATES |-> NULL]
    /\ UNCHANGED <<pc, argc, cur, pos, mallocs, report, hist, last>>

\* fopen(argv[i], "r") returns NULL: the file is reported and skipped.
FopenFails ==
    /\ pc = "main"
    /\ argc >= 2
    /\ argi < argc
    /\ argi' = argi + 1
    /\ UNCHANGED <<pc, argc, states, cur, pos, mallocs, report, hist, last>>

\* fopen succeeds: analyze_file(file, states, NUM_STATES) starts.
FopenOk ==
    /\ pc = "main"
    /\ argc >= 2
    /\ argi < argc
    /\ pc' = "analyze"
    /\ UNCHANGED <<argc, argi, states, cur, pos, mallocs, report, hist, last>>

\* One iteration of analyze_file's while loop; tokens is the tokens[] array
\* built from the buffer fgets filled, which is buffer number c of input
\* line n.
LoopBody(tokens, n, c) ==
        IF TooFewTokens(Len(tokens))
        THEN /\ states' = states
             /\ mallocs' = mallocs
             /\ pc' = pc
             /\ last' = [kind |-> "skip", n |-> n, chunk |-> c, idx |-> 0, ms |-> 0]
        ELSE \/ \* malloc returns NULL in create_state: exit(EXIT_FAILURE)
                /\ states' = states
                /\ mallocs' = mallocs
                /\ pc' = "exit_failure"
                /\ last' = [kind |-> "nomem", n |-> n, chunk |-> c, idx |-> 0, ms |-> 0]
             \/ \E g \in UninitByte :
                  LET state == create_state(tokens, g)
                  IN  \E i \in Scan(states, state.code) :
                      /\ mallocs' = mallocs + 1
                      /\ pc' = pc
                      /\ IF i = 0
                         THEN /\ states' = states
                              /\ last' = [kind |-> "drop", n |-> n, chunk |-> c,
                                          idx |-> 0, ms |-> 0]
                         ELSE IF states[i] = NULL
                         THEN /\ states' = [states EXCEPT ![i] = state]
                              /\ last' = [kind |-> "create", n |-> n, chunk |-> c,
                                          idx |-> i, ms |-> 0]
                         ELSE \E ms \in Atoi(tokens[2]), li \in Atoi(tokens[7]),
                                 sn \in Atoi(tokens[5]) :
                                /\ states' = update_state_info(states, i, tokens, ms, li, sn)
                                /\ last' = [kind |-> "update", n |-> n, chunk |-> c,
                                            idx |-> i, ms |-> ms]

\* The lines the environment may supply next: the filler lines come first
\* and in order, the other lines when no filler or all NumFill were read.
NumFillRead == Cardinality({k \in DOMAIN hist : IsFill(hist[k])})
MayRead(n) ==
    IF IsFill(n)
    THEN /\ Len(hist) = n - NLines - 1
         /\ NumFillRead = Len(hist)
         /\ n - NLines <= NumFill
    ELSE \/ NumFillRead = 0 /\ Len(hist) < MaxLines
         \/ NumFill > 0 /\ NumFillRead = NumFill /\ Len(hist) - NumFill < MaxTail

\* fgets at the beginning of input line n.
ReadLine(n) ==
    /\ pc = "analyze"
    /\ cur = 0
    /\ MayRead(n)
    /\ LoopBody(ChunkTokens[n][1], n, 1)
    /\ cur' = IF Len(Chunks[n]) > 1 THEN n ELSE 0
    /\ pos' = IF Len(Chunks[n]) > 1 THEN 1 ELSE 0
    /\ hist' = Append(hist, n)
    /\ UNCHANGED <<argc, argi, report>>

\* fgets continuing inside input line cur, from which earlier calls read pos
\* buffers.
ReadRest ==
    /\ pc = "analyze"
    /\ cur # 0
    /\ LoopBody(ChunkTokens[cur][pos + 1], cur, pos + 1)
    /\ cur' = IF pos + 1 < Len(Chunks[cur]) THEN cur ELSE 0
    /\ pos' = IF pos + 1 < Len(Chunks[cur]) THEN pos + 1 ELSE 0
    /\ UNCHANGED <<argc, argi, report, hist>>

\* A variant in which the table is cleared when a file has been read.
Eof_ClearsTable ==
    /\ pc = "analyze"
    /\ cur = 0
    /\ NumFillRead \in {0, NumFill}
    /\ pc' = "main"
    /\ argi' = argi + 1
    /\ states' = [i \in 1..NUM_STATES |-> NULL]
    /\ UNCHANGED <<argc, cur, pos, mallocs, report, hist, last>>

\* fgets returns NULL at end of file: analyze_file returns, fclose, ++i.
Eof ==
    /\ pc = "analyze"
    /\ cur = 0
    /\ NumFillRead \in {0, NumFill}
    /\ pc' = "main"
    /\ argi' = argi + 1
    /\ UNCHANGED <<argc, states, cur, pos, mallocs, report, hist, last>>

\* print_report(states, NUM_STATES); return 0;
PrintReport ==
    /\ pc = "main"
    /\ argc >= 2
    /\ argi = argc
    /\ report' = print_report(states)
    /\ pc' = "exit_success"
    /\ UNCHANGED <<argc, argi, states, cur, pos, mallocs, hist, last>>

\* The steps of a run; the history opens is not kept under Spec.
Next ==
    \/ Usage /\ UNCHANGED opens
    \/ FopenFails /\ UNCHANGED opens
    \/ FopenOk /\ UNCHANGED opens
    \/ (\E n \in 1..(NLines + NumFill) : ReadLine(n)) /\ UNCHANGED opens
    \/ ReadRest /\ UNCHANGED opens
    \/ Eof /\ UNCHANGED opens
    \/ PrintReport /\ UNCHANGED opens

Spec == Init /\ [][Next]_vars

\* ------------------------------------------------------------------------
\* The same program run on up to MaxSources file arguments, each holding
\* lines 1, 2 and 6 in any number and order (MaxSrcLines in all), with the
\* outcome of every fopen recorded in opens.
SrcLines == {1, 2, 6}

Opened(ok) == Append(opens, [ok |-> ok, at |-> Len(hist)])

InitSrc ==
    /\ pc = "main"
    /\ argc \in 1..(MaxSources + 1)
    /\ argi = 1
    /\ states = [i \in 1..NUM_STATES |-> NULL]
    /\ cur = 0
    /\ pos = 0
    /\ mallocs = 0
    /\ report = <<>>
    /\ hist = <<>>
    /\ last = NoLast
    /\ opens = <<>>

NextSrc ==
    \/ Usage /\ UNCHANGED opens
    \/ FopenFails /\ opens' = Opened(FALSE)
    \/ FopenOk /\ opens' = Opened(TRUE)
    \/ (\E n \in SrcLines : Len(hist) < MaxSrcLines /\ ReadLine(n)) /\ UNCHANGED opens
    \/ ReadRest /\ UNCHANGED opens
    \/ Eof /\ UNCHANGED opens
    \/ PrintReport /\ UNCHANGED opens

SpecSrc == InitSrc /\ [][NextSrc]_vars

\* ========================================================================
\* What the input says, read off the lines themselves: the fields of a line
\* are the strings between its tabs (empty ones included), without the
\* closing newline.
Split(line) ==
    LET body == IF line # <<>> /\ line[Len(line)] = NL
                THEN SubSeq(line, 1, Len(line) - 1) ELSE line
        tabs == {i \in DOMAIN body : body[i] = TAB}
        nf == Cardinality(tabs) + 1
    IN  [k \in 1..nf |->
            SubSeq(body,
                   IF k = 1 THEN 1 ELSE Nth(tabs, k - 1) + 1,
                   IF k = nf THEN Len(body) ELSE Nth(tabs, k) - 1)]

Fields == [n \in DOMAIN InputLines |-> Split(InputLines[n])]

\* A valid record: a line of at least 9 tab-separated fields.
IsRecord(n) == Len(Fields[n]) >= 9

\* The values of a record, by field position.
FirstTwo(f) == SubSeq(f, 1, Min(2, Len(f)))
FlagVal(f) == DecVal(DigitPrefix(f), 0)
RecCode(n) == FirstTwo(Fields[n][1])
RecHumidity(n) == Atof(Fields[n][4])
RecSnow(n) == FlagVal(Fields[n][5])
RecCloud(n) == Atof(Fields[n][6])
RecLightning(n) == FlagVal(Fields[n][7])
RecTempF(n) == kelvin_to_fahrenheit(Atof(Fields[n][9]))

\* Milliseconds to whole seconds, on the decimal digits: the last three
\* digits are dropped.
SecondsOf(f) ==
    LET ds == DigitPrefix(f)
    IN  IF Len(ds) <= 3 THEN 0 ELSE DecVal(SubSeq(ds, 1, Len(ds) - 3), 0)

\* The two-letter code an accumulator carries.
AccCode(acc) == CStr(<<acc.code[1], acc.code[2]>>)

\* Positions in hist of the valid records whose code is c.
RecordsOf(c) == {k \in DOMAIN hist : IsRecord(hist[k]) /\ RecCode(hist[k]) = c}

RECURSIVE SeqSum(_)
SeqSum(q) == IF q = <<>> THEN 0 ELSE q[1] + SeqSum(Tail(q))

\* The slots in use.
Used == {i \in 1..NUM_STATES : states[i] # NULL}

\* Every line read so far has been processed to its end, and the run was not
\* cut short by a failed allocation.
AtLineEnd == cur = 0 /\ pc # "exit_failure"

\* All input was processed and the report printed.
Finished == pc = "exit_success"

\* A step that ran one iteration of analyze_file's loop.
IsIteration == hist' # hist \/ pos' # pos

\* The tokens[] array of the iteration recorded in l.
TokensOf(l) == ChunkTokens[l.n][l.chunk]
LastTokens == TokensOf(last)

\* ------------------------------------------------------------------------
\* C1: after any sequence of input lines, num_records of every accumulator
\* equals the number of valid lines read so far that carry its code, the
\* line that created it included.
C1_RecordCount ==
    AtLineEnd =>
        \A i \in Used :
            states[i].num_records = Cardinality(RecordsOf(AccCode(states[i])))

\* C2: every accumulator in the table has num_records >= 1, and no average
\* of the report is a division by zero.
C2_CountPositive ==
    /\ \A i \in Used : states[i].num_records >= 1
    /\ Finished =>
         \A k \in DOMAIN report.blocks :
            /\ report.blocks[k].avg_humidity # "nan"
            /\ report.blocks[k].avg_temperature # "nan"
            /\ report.blocks[k].avg_cloud_cover # "nan"

\* C3: after all input is processed, max_temp of an accumulator is >= and
\* min_temp is <= the Fahrenheit temperature of every valid record with its
\* code, the first one included.
C3_ExtremumMonotonicity ==
    Finished =>
        \A i \in Used : \A k \in RecordsOf(AccCode(states[i])) :
            /\ states[i].max_temp >= RecTempF(hist[k])
            /\ states[i].min_temp <= RecTempF(hist[k])

\* C4: after all input is processed, each running aggregate of an
\* accumulator is the sum of the field over all valid records with its code.
SumOver(S, f(_)) == SeqSum([j \in 1..Cardinality(S) |-> f(hist[Nth(S, j)])])
C4_SumsOverAllRecords ==
    Finished =>
        \A i \in Used :
            LET S == RecordsOf(AccCode(states[i]))
            IN  /\ states[i].num_records = Cardinality(S)
                /\ states[i].humidity_sum = SumOver(S, RecHumidity)
                /\ states[i].temperature_sum = SumOver(S, RecTempF)
                /\ states[i].cloud_cover_sum = SumOver(S, RecCloud)
                /\ states[i].lightning_strikes = SumOver(S, RecLightning)
                /\ states[i].snow_cover_records = SumOver(S, RecSnow)

\* ------------------------------------------------------------------------
\* The iteration that led to the current state folded a record into slot
\* last.idx; FoldTemp is that record's Fahrenheit temperature.
TempOf(l) == kelvin_to_fahrenheit(Atof(TokensOf(l)[9]))
FoldTemp == TempOf(last)

\* C5: a fold whose temperature is not strictly greater than the current
\* max_temp (in particular one equal to it) leaves max_temp and
\* max_temp_timestamp unchanged; symmetrically for min_temp.
C5_FirstExtremumWins ==
    [][ (IsIteration /\ last'.kind = "update") =>
          LET i == last'.idx
              old == states[i]
              new == states'[i]
              temp == TempOf(last')
          IN  /\ temp <= old.max_temp =>
                    /\ new.max_temp = old.max_temp
                    /\ new.max_temp_timestamp = old.max_temp_timestamp
              /\ temp >= old.min_temp =>
                    /\ new.min_temp = old.min_temp
                    /\ new.min_temp_timestamp = old.min_temp_timestamp ]_vars

\* A record equal to both extrema of its accumulator has just been folded,
\* and the accumulator keeps the timestamps of the earlier record.
C5_Witness ==
    /\ last.kind = "update"
    /\ pc = "analyze"
    /\ states[last.idx].num_records >= 2
    /\ FoldTemp = states[last.idx].max_temp
    /\ FoldTemp = states[last.idx].min_temp
    /\ states[last.idx].max_temp_timestamp # ToSeconds(last.ms)
    /\ states[last.idx].min_temp_timestamp # ToSeconds(last.ms)

\* C6: reading a line of 8 or fewer tab-separated fields leaves the whole
\* table unchanged, whatever the table and the line's first field.
C6_ShortLineRejected ==
    [][ (IsIteration /\ Len(Fields[last'.n]) <= 8) => states' = states ]_vars

\* A line of 8 fields whose code has no accumulator was read and skipped
\* while the table held an accumulator.
C6_Witness ==
    /\ last.kind = "skip"
    /\ Len(Fields[last.n]) = 8
    /\ Used # {}
    /\ \A i \in Used : AccCode(states[i]) # RecCode(last.n)

\* ------------------------------------------------------------------------
\* The codes of the valid records read so far, each once, in the order of
\* first appearance.
FirstSeen ==
    LET firsts == {k \in DOMAIN hist :
                     /\ IsRecord(hist[k])
                     /\ \A j \in 1..(k - 1) :
                          ~(IsRecord(hist[j]) /\ RecCode(hist[j]) = RecCode(hist[k]))}
    IN  [m \in 1..Cardinality(firsts) |-> RecCode(hist[Nth(firsts, m)])]

\* The codes of the table, read in index order.
TableCodes ==
    LET idx == NonNull(states)
    IN  [m \in 1..Len(idx) |-> AccCode(states[idx[m]])]

\* C7: after any sequence of records the table, read in index order, lists
\* each distinct code seen exactly once, in order of first appearance.
C7_LazyCreationOrder == AtLineEnd => TableCodes = FirstSeen

\* C8: every code that appears in a valid record has an accumulator, however
\* many distinct codes there are.
C8_NoUpperBound ==
    AtLineEnd =>
        \A k \in DOMAIN hist :
            IsRecord(hist[k]) =>
                \E i \in Used : AccCode(states[i]) = RecCode(hist[k])

\* ------------------------------------------------------------------------
\* A token without the newline that closes the line.
StripNL(tok) ==
    IF tok # <<>> /\ tok[Len(tok)] = NL THEN SubSeq(tok, 1, Len(tok) - 1) ELSE tok

\* The positions of tokens[] the program reads.
UsedPositions == {1, 2, 4, 5, 6, 7, 9}

\* C9: a line of 9 or more fields (empty ones included) yields a record, and
\* every record is made of fields 1, 2, 4, 5, 6, 7 and 9 of its line, by
\* position; fields after the 9th are ignored.
C9_PositionalFields ==
    (last.kind # "none" /\ IsRecord(last.n)) =>
        /\ last.chunk = 1 => last.kind # "skip"
        /\ last.kind \in {"create", "update", "drop"} =>
             \A j \in UsedPositions : StripNL(LastTokens[j]) = Fields[last.n][j]

\* C10: a record that sets an extremum stores, as its timestamp, the
\* record's millisecond timestamp divided by 1000 with truncation.
C10_TimestampSeconds ==
    [][ (IsIteration /\ last'.kind = "update") =>
          LET i == last'.idx
              secs == SecondsOf(TokensOf(last')[2])
              temp == TempOf(last')
          IN  /\ temp > states[i].max_temp =>
                    states'[i].max_temp_timestamp = secs
              /\ temp < states[i].min_temp =>
                    states'[i].min_temp_timestamp = secs ]_vars

\* ------------------------------------------------------------------------
\* analyze_file as a function: the tables one call can leave, when no malloc
\* fails.  After: the effect of the for loop ending at index i (0: no break).
After(tab, state, i, tokens) ==
    IF i = 0 THEN {tab}
    ELSE IF tab[i] = NULL THEN {[tab EXCEPT ![i] = state]}
    ELSE {update_state_info(tab, i, tokens, ms, li, sn) :
            ms \in Atoi(tokens[2]), li \in Atoi(tokens[7]), sn \in Atoi(tokens[5])}

\* One iteration of the while loop on the tokens[] array of one buffer.
Iterate(tab, tokens) ==
    IF TooFewTokens(Len(tokens)) THEN {tab}
    ELSE UNION { UNION { After(tab, create_state(tokens, g), i, tokens) :
                           i \in Scan(tab, create_state(tokens, g).code) } :
                 g \in UninitByte }

\* The tokens[] arrays of the successive buffers of a file made of the input
\* lines h, in order.
RECURSIVE BuffersOf(_)
BuffersOf(h) ==
    IF h = <<>> THEN <<>>
    ELSE [c \in DOMAIN Chunks[h[1]] |-> ChunkTokens[h[1]][c]] \o BuffersOf(Tail(h))

RECURSIVE IterateAll(_, _)
IterateAll(tabs, bufs) ==
    IF bufs = <<>> THEN tabs
    ELSE IterateAll(UNION {Iterate(t, bufs[1]) : t \in tabs}, Tail(bufs))

\* analyze_file(file, states, NUM_STATES) called once, with the empty table
\* of main, on one file made of the lines h.
analyze_file(h) == IterateAll({[i \in 1..NUM_STATES |-> NULL]}, BuffersOf(h))

\* The sequences of lines a run under SpecSrc can read, and the pairs of
\* such a sequence h and a table one pass over h leaves.
SrcHists == UNION {[1..k -> SrcLines] : k \in 0..MaxSrcLines}
OnePass == UNION {{<<h, t>> : t \in analyze_file(h)} : h \in SrcHists}

\* A step in which main tried to open a file argument, and its outcome.
IsOpen == Len(opens') = Len(opens) + 1
OpenedOk == opens'[Len(opens')].ok

\* C11: the sources are tried in argument order; a source that cannot be
\* opened changes nothing but main's index, and the loop goes on; the table
\* is not touched between sources; so the final table is a table that one
\* pass over the concatenation of the readable sources leaves.
C11_CrossSourceAccumulation ==
    /\ [](Finished => <<hist, states>> \in OnePass)
    /\ [][ /\ IsOpen => Len(opens') = argi
           /\ (IsOpen /\ ~OpenedOk) =>
                 /\ states' = states
                 /\ hist' = hist
                 /\ mallocs' = mallocs
                 /\ pc' = "main"
                 /\ argi' = argi + 1
           /\ (argi' # argi \/ IsOpen) => states' = states ]_vars

\* Three sources: the first held one record, the second could not be
\* opened, the third held a record that was folded into the accumulator the
\* first one created.
C11_Witness ==
    /\ Finished
    /\ Len(opens) = 3
    /\ opens[1].ok /\ opens[1].at = 0
    /\ ~opens[2].ok /\ opens[2].at = 1
    /\ opens[3].ok /\ opens[3].at = 1
    /\ Len(hist) = 2
    /\ last.kind = "update"
    /\ states[last.idx].num_records = 1

\* ------------------------------------------------------------------------
\* A numeric field no prefix of which is a number: atoi and atof convert it
\* to zero.
Unparsable(f) == DigitPrefix(Unsigned(SkipSpace(f))) = <<>>

\* The positions of the numeric fields of a record: timestamp, humidity,
\* snow flag, cloud cover, lightning flag, temperature.
NumericPositions == {2, 4, 5, 6, 7, 9}

HasUnparsable(n) == \E j \in NumericPositions : Unparsable(Fields[n][j])

\* What field j of line n adds to its sum when it parses to v.
Contribution(n, j, v) == IF Unparsable(Fields[n][j]) THEN 0 ELSE v

\* The sums of an accumulator that no record was folded into yet.
NoRecords ==
    [num_records |-> 0, humidity_sum |-> 0, temperature_sum |-> 0,
     cloud_cover_sum |-> 0, lightning_strikes |-> 0, snow_cover_records |-> 0]

\* C12: reading a line of at least 9 fields one of whose numeric fields is
\* unparsable folds it as a record: the count of its code's accumulator
\* (zero when the line creates it) goes up by one, the unparsable field adds
\* zero to its sum and the other fields add their parsed values.
C12_PermissiveParsing ==
    [][ ( /\ hist' # hist
          /\ pc' # "exit_failure"
          /\ IsRecord(last'.n)
          /\ HasUnparsable(last'.n) ) =>
          /\ last'.kind \in {"create", "update"}
          /\ LET n == last'.n
                 i == last'.idx
                 old == IF states[i] = NULL THEN NoRecords ELSE states[i]
                 new == states'[i]
             IN  /\ new.num_records = old.num_records + 1
                 /\ new.humidity_sum =
                        old.humidity_sum + Contribution(n, 4, RecHumidity(n))
                 /\ new.cloud_cover_sum =
                        old.cloud_cover_sum + Contribution(n, 6, RecCloud(n))
                 /\ new.temperature_sum =
                        old.temperature_sum + Contribution(n, 9, RecTempF(n))
                 /\ new.lightning_strikes =
                        old.lightning_strikes + Contribution(n, 7, RecLightning(n))
                 /\ new.snow_cover_records =
                        old.snow_cover_records + Contribution(n, 5, RecSnow(n)) ]_vars

\* ------------------------------------------------------------------------
\* No line read so far is a valid record.
NoValidRecord == \A k \in DOMAIN hist : ~IsRecord(hist[k])

\* The report took the branch that prints "None".
NoneFound == report.states_found = <<None>>

\* C13: when no valid record was seen in any source, the table is empty at
\* report time, the report says that no state was found and prints no
\* per-state block; and the report says so only when the table is empty.
C13_NoStatesFound ==
    Finished =>
        /\ NoValidRecord =>
              /\ Used = {}
              /\ NoneFound
              /\ report.blocks = <<>>
        /\ NoneFound => Used = {}

\* A run that read only lines of fewer than 9 fields, and reported that no
\* state was found.
C13_Witness ==
    /\ Finished
    /\ hist # <<>>
    /\ NoValidRecord
    /\ NoneFound
    /\ report.blocks = <<>>

\* ------------------------------------------------------------------------
\* C14: right after the first valid record of a code was processed, the new
\* accumulator has max_temp = min_temp = the record's Fahrenheit temperature
\* and both timestamps = the record's timestamp in seconds; and no
\* accumulator of the table ever holds a sentinel as an extremum.
C14_FirstRecordSetsExtrema ==
    /\ \A i \in Used :
          /\ states[i].max_temp # -DBL_MAX
          /\ states[i].min_temp # DBL_MAX
    /\ (last.kind = "create" /\ last.chunk = 1) =>
          LET a == states[last.idx]
              secs == SecondsOf(Fields[last.n][2])
          IN  /\ a.max_temp = RecTempF(last.n)
              /\ a.min_temp = RecTempF(last.n)
              /\ a.max_temp_timestamp = secs
              /\ a.min_temp_timestamp = secs

\* ------------------------------------------------------------------------
\* C15: once position i of the table holds an accumulator with code c, it
\* holds an accumulator with code c in every later state, within a source
\* and across sources, and num_records of an accumulator never decreases.
C15_TableGrowthMonotone ==
    [][ \A i \in 1..NUM_STATES :
          states[i] # NULL =>
              /\ states'[i] # NULL
              /\ states'[i].code = states[i].code
              /\ states'[i].num_records >= states[i].num_records ]_vars

\* The first source created accumulators at positions 1 and 2; a record of
\* the second source was folded into the one at position 1, and both are
\* where they were.
C15_Witness ==
    /\ Len(opens) = 2
    /\ opens[1].ok /\ opens[1].at = 0
    /\ opens[2].ok /\ opens[2].at = 1
    /\ hist = <<6, 1>>
    /\ last.kind = "update" /\ last.idx = 1
    /\ AccCode(states[1]) = CA /\ states[1].num_records = 1
    /\ states[2] # NULL /\ AccCode(states[2]) = WA

\* ------------------------------------------------------------------------
\* C16: the number of accumulator objects allocated equals the number of
\* accumulators in the table, and the run ends on a failed allocation only
\* while processing a record whose code has no accumulator.
C16_AllocationOnlyOnCreate ==
    /\ mallocs = Cardinality(Used)
    /\ last.kind = "nomem" =>
          \A i \in Used : AccCode(states[i]) # FirstTwo(LastTokens[1])

\* ------------------------------------------------------------------------
\* The total of num_records over the table.
TotalRecords ==
    LET idx == NonNull(states)
    IN  SeqSum([k \in 1..Len(idx) |-> states[idx[k]].num_records])

\* The latest iteration took a later buffer of a line whose first buffer
\* was already parsed as a record.
SecondParse ==
    /\ last.chunk > 1
    /\ ~TooFewTokens(Len(ChunkTokens[last.n][1]))

\* C17: a newline-terminated line causes at most one fold, whatever its
\* length: no later part of a line already parsed as a record is parsed as
\* a record again, and the total of num_records never exceeds the number of
\* lines read.
C17_OneFoldPerLine ==
    /\ SecondParse => last.kind = "skip"
    /\ TotalRecords <= Len(hist)

\* ------------------------------------------------------------------------
\* C18: an iteration that processes a valid record with code c leaves every
\* accumulator whose code is not c as it was, in all its fields.
C18_FoldFrame ==
    [][ (IsIteration /\ last'.kind \in {"create", "update", "drop", "nomem"}) =>
          \A i \in 1..NUM_STATES :
              (states[i] # NULL
                 /\ AccCode(states[i]) # FirstTwo(TokensOf(last')[1])) =>
                  states'[i] = states[i] ]_vars

\* A record was folded into an accumulator while the table held an
\* accumulator of another code into which a record had been folded before.
C18_Witness ==
    /\ last.kind = "update"
    /\ AccCode(states[last.idx]) = FirstTwo(LastTokens[1])
    /\ \E j \in Used :
          /\ AccCode(states[j]) # AccCode(states[last.idx])
          /\ states[j].num_records >= 1

\* ------------------------------------------------------------------------
\* The non-NULL slots of the table are a prefix of it.
ContiguousPrefix ==
    \A i \in 1..NUM_STATES : \A j \in 1..NUM_STATES :
        (i < j /\ states[i] = NULL) => states[j] = NULL

\* C19: the table is always a prefix of non-NULL slots followed by NULL
\* slots only; and when the scan has reached a NULL slot (and stored the new
\* accumulator there), no other slot holds an accumulator with the record's
\* code.
C19_ScanReachesNull ==
    /\ ContiguousPrefix
    /\ last.kind = "create" =>
          \A j \in Used \ {last.idx} :
              AccCode(states[j]) # FirstTwo(LastTokens[1])

====
